---- MODULE Spec2Model ----
(***************************************************************************)
(* Model of export_dropbox_paper.py: the batch driver main, the path       *)
(* resolver compute_remote_path, the export requester export_paper and     *)
(* the discovery helper iter_paper_files.                                  *)
(*                                                                         *)
(* Strings are sequences of blocks.  A block is a run of characters that   *)
(* is never split: "a" is an ordinary letter, ".paper", ".md" and ".html"  *)
(* are a dot followed by letters, ".." is the parent-directory name and    *)
(* "/" the POSIX separator.  No block is a prefix of another, so comparing *)
(* block by block is comparing character by character.  A path is a        *)
(* sequence of components, each component a string.  Paths are POSIX,      *)
(* absolute and free of symbolic links.                                    *)
(***************************************************************************)
EXTENDS Integers, Sequences, FiniteSets, TLC

\* Longest file name, in blocks.
MaxNameLen == 2
\* Largest number of entries in the directory tree under --paper-dir.
MaxFiles == 3
\* Longest path handed to compute_remote_path on its own, in components.
MaxPathLen == 3
\* Longest payload returned by the export endpoint, in bytes.
MaxTextLen == 2

VARIABLES
    pc,              \* position of main
    status,          \* "running", or how the run ended
    exit_code,       \* process exit code, -1 while running
    args,            \* parsed command line: format, dropbox_root
    token,           \* main's local `token`
    out_dir_created, \* output_dir.mkdir has run
    tree,            \* files rglob saw under paper_dir (relative paths)
    paper_files,     \* main's local `paper_files`
    idx,             \* position of the for loop in paper_files (1-based)
    remote_path,     \* main's local `remote_path`
    content,         \* main's local `content`
    out_files,       \* files written under output_dir: path -> text
    out_dirs,        \* directories created under output_dir
    log,             \* steps taken and lines printed, in order
    call,            \* arguments of a stand-alone call of a pure function
    ret              \* its result

vars == <<pc, status, exit_code, args, token, out_dir_created, tree,
          paper_files, idx, remote_path, content, out_files, out_dirs, log,
          call, ret>>

----------------------------------------------------------------------------
(* Strings and paths                                                       *)

RECURSIVE SeqsUpTo(_, _)
SeqsUpTo(S, n) ==
    IF n = 0 THEN {<<>>}
    ELSE LET shorter == SeqsUpTo(S, n - 1)
         IN shorter \cup {Append(s, x) : s \in shorter, x \in S}

\* Character order of the blocks that are ever compared (code points: "." 46,
\* "/" 47, letters above).
Collation == <<"..", ".html", ".md", ".paper", "/", "a", "d", "o", "p", "r">>

BlockRank(b) == CHOOSE i \in 1..Len(Collation) : Collation[i] = b

\* str.__lt__ on two strings.
RECURSIVE StrLess(_, _)
StrLess(s, t) ==
    IF t = <<>> THEN FALSE
    ELSE IF s = <<>> THEN TRUE
    ELSE IF Head(s) = Head(t) THEN StrLess(Tail(s), Tail(t))
    ELSE BlockRank(Head(s)) < BlockRank(Head(t))

\* PurePath.__lt__: list comparison of the parts.
RECURSIVE PathLess(_, _)
PathLess(p, q) ==
    IF q = <<>> THEN FALSE
    ELSE IF p = <<>> THEN TRUE
    ELSE IF Head(p) = Head(q) THEN PathLess(Tail(p), Tail(q))
    ELSE StrLess(Head(p), Head(q))

\* The paths in descending order.
RECURSIVE SortPathsDescending(_)
SortPathsDescending(S) ==
    IF S = {} THEN <<>>
    ELSE LET m == CHOOSE x \in S : \A y \in S : y = x \/ PathLess(y, x)
         IN <<m>> \o SortPathsDescending(S \ {m})

\* sorted() over a set of paths.
RECURSIVE SortPaths(_)
SortPaths(S) ==
    IF S = {} THEN <<>>
    ELSE LET m == CHOOSE x \in S : \A y \in S : y = x \/ PathLess(x, y)
         IN <<m>> \o SortPaths(S \ {m})

IsDotBlock(b) == b \in {".paper", ".md", ".html"}

\* fnmatch(name, "*.paper")
MatchesPaper(name) == Len(name) >= 1 /\ name[Len(name)] = ".paper"

\* PurePath.suffix: the part of the name from its last dot, unless that dot
\* is the first character of the name.
Suffix(name) ==
    LET dots == {i \in 1..Len(name) : IsDotBlock(name[i])}
    IN IF dots = {} THEN <<>>
       ELSE LET i == CHOOSE j \in dots : \A k \in dots : k <= j
            IN IF i > 1 THEN SubSeq(name, i, Len(name)) ELSE <<>>

\* PurePath.with_suffix
with_suffix(path, suffix) ==
    LET name == path[Len(path)]
        old  == Suffix(name)
        new  == IF old = <<>> THEN name \o suffix
                ELSE SubSeq(name, 1, Len(name) - Len(old)) \o suffix
    IN [path EXCEPT ![Len(path)] = new]

\* Path.resolve on an absolute path without symbolic links: ".." components
\* are folded into their parent (the root is its own parent).
RECURSIVE Resolve(_)
Resolve(path) ==
    IF path = <<>> THEN <<>>
    ELSE LET front == Resolve(SubSeq(path, 1, Len(path) - 1))
             last  == path[Len(path)]
         IN IF last = <<"..">>
            THEN (IF front = <<>> THEN <<>> ELSE SubSeq(front, 1, Len(front) - 1))
            ELSE Append(front, last)

IsPrefix(base, p) == Len(base) <= Len(p) /\ SubSeq(p, 1, Len(base)) = base

\* PurePath.relative_to: ValueError when `base` is not a prefix of `p`.
relative_to(p, base) ==
    IF IsPrefix(base, p)
    THEN [ok |-> TRUE, parts |-> SubSeq(p, Len(base) + 1, Len(p))]
    ELSE [ok |-> FALSE, parts |-> <<>>]

\* PurePath.as_posix of a relative path: "." when it has no parts.
RECURSIVE JoinPosix(_)
JoinPosix(parts) ==
    IF Len(parts) = 1 THEN parts[1]
    ELSE parts[1] \o <<"/">> \o JoinPosix(Tail(parts))

as_posix(parts) == IF parts = <<>> THEN <<".">> ELSE JoinPosix(parts)

\* compute_remote_path without the two resolve() calls.
compute_remote_path_unresolved(local_file, dropbox_root) ==
    LET relative == relative_to(local_file, dropbox_root)
    IN IF relative.ok
       THEN [ok |-> TRUE, value |-> <<"/">> \o as_posix(relative.parts)]
       ELSE [ok |-> FALSE, value |-> <<>>]

compute_remote_path(local_file, dropbox_root) ==
    LET relative == relative_to(Resolve(local_file), Resolve(dropbox_root))
    IN IF relative.ok
       THEN [ok |-> TRUE, value |-> <<"/">> \o as_posix(relative.parts)]
       ELSE [ok |-> FALSE, value |-> <<>>]

iter_paper_files(root, entries) ==
    SortPaths({root \o e : e \in {f \in entries : MatchesPaper(f[Len(f)])}})

----------------------------------------------------------------------------
(* export_paper                                                            *)

\* Payload bytes: 104 is "h", 10 is a line feed, 255 is never valid UTF-8.
Bytes == {104, 10, 255}

ValidByte(b) == b \in {104, 10}

DecodeByte(b) == IF b = 104 THEN "h" ELSE IF b = 10 THEN "\n" ELSE "U+FFFD"

\* bytes.decode("utf-8"), and on UnicodeDecodeError
\* bytes.decode("utf-8", errors="replace")
Decode(payload) ==
    IF \A i \in 1..Len(payload) : ValidByte(payload[i])
    THEN [i \in 1..Len(payload) |-> DecodeByte(payload[i])]
    ELSE [i \in 1..Len(payload) |->
             IF ValidByte(payload[i]) THEN DecodeByte(payload[i]) ELSE "U+FFFD"]

\* remote_path.rsplit("/", 1)[-1]
LastSegment(s) ==
    LET seps == {i \in 1..Len(s) : s[i] = "/"}
    IN IF seps = {} THEN s
       ELSE LET i == CHOOSE j \in seps : \A k \in seps : k <= j
            IN SubSeq(s, i + 1, Len(s))

\* What client.files_export does: returns (metadata, response) or raises
\* ApiError, AuthError or something else (a timeout, a server error).
\* `has_name` says whether the metadata object has a `name` attribute.
ApiResults(names, payloads) ==
    [kind : {"ok"}, has_name : {FALSE}, name : {<<>>}, payload : payloads]
    \cup [kind : {"ok"}, has_name : {TRUE}, name : names, payload : payloads]
    \cup [kind : {"ApiError", "AuthError", "OtherError"}, has_name : {FALSE},
          name : {<<>>}, payload : {<<>>}]

\* export_paper letting ApiError through unwrapped.
export_paper_unwrapped(result, path, export_format) ==
    IF result.kind # "ok" THEN [kind |-> result.kind, value |-> <<>>]
    ELSE LET text   == Decode(result.payload)
             title  == IF result.has_name THEN result.name ELSE LastSegment(path)
             suffix == IF export_format # ""
                       THEN <<" (exported as ", export_format, ")">>
                       ELSE <<>>
         IN [kind  |-> "return",
             value |-> <<"# ">> \o title \o suffix \o <<"\n", "\n">> \o text]

\* export_paper falling back to the whole remote path as the title.
export_paper_title_is_path(result, path, export_format) ==
    IF result.kind = "ApiError" THEN [kind |-> "RuntimeError", value |-> <<>>]
    ELSE IF result.kind # "ok" THEN [kind |-> result.kind, value |-> <<>>]
    ELSE LET text   == Decode(result.payload)
             title  == IF result.has_name THEN result.name ELSE path
             suffix == IF export_format # ""
                       THEN <<" (exported as ", export_format, ")">>
                       ELSE <<>>
         IN [kind  |-> "return",
             value |-> <<"# ">> \o title \o suffix \o <<"\n", "\n">> \o text]

export_paper(result, path, export_format) ==
    IF result.kind = "ApiError" THEN [kind |-> "RuntimeError", value |-> <<>>]
    ELSE IF result.kind # "ok" THEN [kind |-> result.kind, value |-> <<>>]
    ELSE LET text   == Decode(result.payload)
             title  == IF result.has_name THEN result.name ELSE LastSegment(path)
             suffix == IF export_format # ""
                       THEN <<" (exported as ", export_format, ")">>
                       ELSE <<>>
         IN [kind  |-> "return",
             value |-> <<"# ">> \o title \o suffix \o <<"\n", "\n">> \o text]

----------------------------------------------------------------------------
(* main                                                                    *)

PaperDir == << <<"r">>, <<"p">> >>
OutputDir == << <<"o">> >>

\* --dropbox-root: an ancestor of paper_dir spelled with "..", the
\* sub-directory d of paper_dir, a directory unrelated to paper_dir.
RootOptions == { << <<"r">>, <<"d">>, <<"..">> >>,
                 << <<"r">>, <<"p">>, <<"d">> >>,
                 << <<"o">> >> }

Formats == {"markdown", "html"}
Tokens == {"", "tok"}

NameBlocks == {"a", ".paper"}
Names == SeqsUpTo(NameBlocks, MaxNameLen) \ {<<>>}
Dirs == {<<>>, << <<"d">> >>}
Entries == {d \o <<n>> : d \in Dirs, n \in Names}

RECURSIVE SetsUpTo(_, _)
SetsUpTo(S, n) ==
    IF n = 0 THEN {{}}
    ELSE LET smaller == SetsUpTo(S, n - 1)
         IN smaller \cup {s \cup {x} : s \in smaller, x \in S}

Trees == SetsUpTo(Entries, MaxFiles)

\* What the export endpoint can answer inside a run: the title handling is
\* exercised by SpecExport, a run takes metadata without a `name`.
MainResults == ApiResults({}, {<<104>>})

Event(op, i, res) == [op |-> op, i |-> i, res |-> res]

Prefixes(path) == {SubSeq(path, 1, n) : n \in 1..Len(path)}

Init ==
    /\ pc = "check_dir"
    /\ status = "running"
    /\ exit_code = -1
    /\ args \in [format : Formats, dropbox_root : RootOptions]
    /\ token = ""
    /\ out_dir_created = FALSE
    /\ tree = {}
    /\ paper_files = <<>>
    /\ idx = 0
    /\ remote_path = <<>>
    /\ content = <<>>
    /\ out_files = <<>>
    /\ out_dirs = {}
    /\ log = <<>>
    /\ call = <<>>
    /\ ret = <<>>

\* Leaving with exit code 0, as a bare SystemExit() does.
StopExitsZero(how) ==
    /\ pc' = "exit"
    /\ status' = how
    /\ exit_code' = 0

\* raise SystemExit(message), or an exception nobody catches: exit code 1.
Stop(how) ==
    /\ pc' = "exit"
    /\ status' = how
    /\ exit_code' = 1

\* return 0
Return0 ==
    /\ pc' = "exit"
    /\ status' = "completed"
    /\ exit_code' = 0

\* The for loop moves to the next file, or falls through to `return 0`.
NextFile ==
    IF idx < Len(paper_files)
    THEN /\ idx' = idx + 1
         /\ pc' = "resolve"
         /\ UNCHANGED <<status, exit_code>>
    ELSE /\ idx' = idx
         /\ Return0

CheckDir ==
    /\ pc = "check_dir"
    /\ \E is_dir \in BOOLEAN :
          IF is_dir
          THEN /\ pc' = "check_token"
               /\ UNCHANGED <<status, exit_code>>
          ELSE Stop("aborted_dir")
    /\ UNCHANGED <<args, token, out_dir_created, tree, paper_files, idx,
                   remote_path, content, out_files, out_dirs, log, call, ret>>

\* The token check with the output directory created ahead of it.
CheckTokenAfterMkdir ==
    /\ pc = "check_token"
    /\ out_dir_created' = TRUE
    /\ out_dirs' = out_dirs \cup Prefixes(OutputDir)
    /\ \E flag \in Tokens, env \in Tokens :
          /\ token' = IF flag # "" THEN flag ELSE env
          /\ IF token' # ""
             THEN /\ pc' = "setup"
                  /\ UNCHANGED <<status, exit_code>>
             ELSE Stop("aborted_token")
    /\ UNCHANGED <<args, tree, paper_files, idx, remote_path, content,
                   out_files, log, call, ret>>

CheckToken ==
    /\ pc = "check_token"
    /\ \E flag \in Tokens, env \in Tokens :
          /\ token' = IF flag # "" THEN flag ELSE env
          /\ IF token' # ""
             THEN /\ pc' = "setup"
                  /\ UNCHANGED <<status, exit_code>>
             ELSE Stop("aborted_token")
    /\ UNCHANGED <<args, out_dir_created, tree, paper_files, idx,
                   remote_path, content, out_files, out_dirs, log, call, ret>>

\* dropbox.Dropbox(token, ...) and output_dir.mkdir(parents=True, exist_ok=True)
Setup ==
    /\ pc = "setup"
    /\ \E mkdir_ok \in BOOLEAN :
          IF mkdir_ok
          THEN /\ out_dir_created' = TRUE
               /\ out_dirs' = out_dirs \cup Prefixes(OutputDir)
               /\ pc' = "discover"
               /\ UNCHANGED <<status, exit_code>>
          ELSE /\ Stop("uncaught")
               /\ UNCHANGED <<out_dir_created, out_dirs>>
    /\ UNCHANGED <<args, token, tree, paper_files, idx, remote_path, content,
                   out_files, log, call, ret>>

\* Discovery that returns 0 on an empty list without printing.
DiscoverSilent ==
    /\ pc = "discover"
    /\ \E t \in Trees :
          /\ tree' = t
          /\ paper_files' = iter_paper_files(PaperDir, t)
    /\ log' = log
    /\ IF paper_files' = <<>>
       THEN /\ idx' = idx
            /\ Return0
       ELSE /\ idx' = 1
            /\ pc' = "resolve"
            /\ UNCHANGED <<status, exit_code>>
    /\ UNCHANGED <<args, token, out_dir_created, remote_path, content,
                   out_files, out_dirs, call, ret>>

Discover ==
    /\ pc = "discover"
    /\ \E t \in Trees :
          /\ tree' = t
          /\ paper_files' = iter_paper_files(PaperDir, t)
    /\ IF paper_files' = <<>>
       THEN /\ log' = Append(log, Event("print_no_files", 0, ""))
            /\ idx' = idx
            /\ Return0
       ELSE /\ log' = log
            /\ idx' = 1
            /\ pc' = "resolve"
            /\ UNCHANGED <<status, exit_code>>
    /\ UNCHANGED <<args, token, out_dir_created, remote_path, content,
                   out_files, out_dirs, call, ret>>

\* The handlers with AuthError caught like a per-file error.
HandlerAuthSkips(kind) ==
    CASE kind = "return"       -> "proceed"
      [] kind = "RuntimeError" -> "skip"
      [] kind = "AuthError"    -> "skip"
      [] OTHER                 -> "uncaught"

\* main's try/except around compute_remote_path and export_paper: what the
\* loop does with an outcome.
Handler(kind) ==
    CASE kind = "return"       -> "proceed"
      [] kind = "RuntimeError" -> "skip"
      [] kind = "AuthError"    -> "abort"
      [] OTHER                 -> "uncaught"

ResolveStep ==
    /\ pc = "resolve"
    /\ LET r == compute_remote_path(paper_files[idx], args.dropbox_root)
           h == Handler(IF r.ok THEN "return" ELSE "RuntimeError")
       IN /\ log' = log \o <<Event("print_processing", idx, ""),
                             Event("resolve", idx,
                                   IF r.ok THEN "ok" ELSE "RuntimeError")>> \o
                    (IF h = "skip" THEN <<Event("print_skip", idx, "")>>
                     ELSE <<>>)
          /\ remote_path' = IF r.ok THEN r.value ELSE remote_path
          /\ CASE h = "proceed" -> /\ pc' = "export"
                                 /\ UNCHANGED <<idx, status, exit_code>>
               [] h = "skip"  -> NextFile
               [] h = "abort" -> /\ idx' = idx
                                 /\ Stop("aborted_auth")
               [] OTHER       -> /\ idx' = idx
                                 /\ Stop("uncaught")
    /\ UNCHANGED <<args, token, out_dir_created, tree, paper_files, content,
                   out_files, out_dirs, call, ret>>

\* The remote call of export_paper, and main's handlers around it.  The log
\* keeps what the remote call reported.
ExportStep ==
    /\ pc = "export"
    /\ \E result \in MainResults :
          LET r == export_paper(result, remote_path, args.format)
              h == Handler(r.kind)
          IN /\ log' = log \o <<Event("export", idx, result.kind)>> \o
                       (IF h = "skip" THEN <<Event("print_skip", idx, "")>>
                        ELSE <<>>)
             /\ content' = IF h = "proceed" THEN r.value ELSE content
             /\ CASE h = "proceed" -> /\ pc' = "write"
                                    /\ UNCHANGED <<idx, status, exit_code>>
                  [] h = "skip"  -> NextFile
                  [] h = "abort" -> /\ idx' = idx
                                    /\ Stop("aborted_auth")
                  [] OTHER       -> /\ idx' = idx
                                    /\ Stop("uncaught")
    /\ UNCHANGED <<args, token, out_dir_created, tree, paper_files,
                   remote_path, out_files, out_dirs, call, ret>>

Extension(format) == IF format = "markdown" THEN <<".md">> ELSE <<".html">>

TargetPath(paper_path, format) ==
    OutputDir \o
    with_suffix(relative_to(paper_path, PaperDir).parts, Extension(format))

WriteStep ==
    /\ pc = "write"
    /\ LET target_path == TargetPath(paper_files[idx], args.format)
           parent      == SubSeq(target_path, 1, Len(target_path) - 1)
       IN \E write_ok \in BOOLEAN :
             IF write_ok
             THEN /\ out_dirs' = out_dirs \cup Prefixes(parent)
                  /\ out_files' =
                        [p \in DOMAIN out_files \cup {target_path} |->
                            IF p = target_path THEN content ELSE out_files[p]]
                  /\ log' = Append(log, Event("write", idx, "ok"))
                  /\ NextFile
             ELSE /\ log' = Append(log, Event("write", idx, "OSError"))
                  /\ idx' = idx
                  /\ Stop("uncaught")
                  /\ UNCHANGED <<out_dirs, out_files>>
    /\ UNCHANGED <<args, token, out_dir_created, tree, paper_files,
                   remote_path, content, call, ret>>

Next ==
    \/ CheckDir
    \/ CheckToken
    \/ Setup
    \/ Discover
    \/ ResolveStep
    \/ ExportStep
    \/ WriteStep

Spec == Init /\ [][Next]_vars

----------------------------------------------------------------------------
(* compute_remote_path and export_paper called on their own                *)

\* main's variables while a pure function is exercised on its own.
Parked ==
    /\ status = "running"
    /\ exit_code = -1
    /\ args = [format |-> "markdown", dropbox_root |-> <<>>]
    /\ token = ""
    /\ out_dir_created = FALSE
    /\ tree = {}
    /\ paper_files = <<>>
    /\ idx = 0
    /\ remote_path = <<>>
    /\ content = <<>>
    /\ out_files = <<>>
    /\ out_dirs = {}
    /\ log = <<>>

PathComponents == {<<"a">>, <<"a", ".paper">>, <<"..">>}
Paths == SeqsUpTo(PathComponents, MaxPathLen)

InitPath ==
    /\ pc = "call_path"
    /\ call \in [local_file : Paths, dropbox_root : Paths]
    /\ ret = <<>>
    /\ Parked

CallComputeRemotePath ==
    /\ pc = "call_path"
    /\ ret' = compute_remote_path(call.local_file, call.dropbox_root)
    /\ pc' = "returned_path"
    /\ UNCHANGED <<status, exit_code, args, token, out_dir_created, tree,
                   paper_files, idx, remote_path, content, out_files,
                   out_dirs, log, call>>

SpecPath == InitPath /\ [][CallComputeRemotePath]_vars

ExportPaths == { <<"/", "a", ".paper">>,
                 <<"/", "d", "/", "a", ".paper">>,
                 <<"/", ".">> }
ExportFormats == {"markdown", "html", ""}
ExportResults == ApiResults({<<"T">>}, SeqsUpTo(Bytes, MaxTextLen))

InitExport ==
    /\ pc = "call_export"
    /\ call \in [result : ExportResults, path : ExportPaths,
                 format : ExportFormats]
    /\ ret = <<>>
    /\ Parked

CallExportPaper ==
    /\ pc = "call_export"
    /\ ret' = export_paper(call.result, call.path, call.format)
    /\ pc' = "returned_export"
    /\ UNCHANGED <<status, exit_code, args, token, out_dir_created, tree,
                   paper_files, idx, remote_path, content, out_files,
                   out_dirs, log, call>>

SpecExport == InitExport /\ [][CallExportPaper]_vars

----------------------------------------------------------------------------
(* Properties                                                              *)

LogHas(op, i, res) == \E k \in DOMAIN log : log[k] = Event(op, i, res)

LogHasOp(op, i) == \E k \in DOMAIN log : log[k].op = op /\ log[k].i = i

Exited(code) == pc = "exit" /\ exit_code = code

ExitedNonZero == pc = "exit" /\ exit_code # 0 /\ exit_code # -1

StepOps == {"resolve", "export", "write"}

IsStep(e) == e.op \in StepOps

StepRank(op) == IF op = "resolve" THEN 1 ELSE IF op = "export" THEN 2 ELSE 3

Discovered == out_dir_created /\ pc # "discover"

Written(i) == LogHas("write", i, "ok")

NumWritten == Cardinality({i \in 1..Len(paper_files) : Written(i)})

\* C1 (state part): when the remote call reports an authentication failure
\* on file k, the run has exited non-zero at k, every earlier file whose
\* export succeeded has its output on disk, nothing was written for k, and
\* no step was taken for a later file.
AuthFailureState ==
    \A k \in 1..Len(paper_files) :
        LogHas("export", k, "AuthError") =>
            /\ ExitedNonZero
            /\ status = "aborted_auth"
            /\ idx = k
            /\ \A j \in 1..(k - 1) :
                  LogHas("export", j, "ok") =>
                      /\ Written(j)
                      /\ TargetPath(paper_files[j], args.format) \in DOMAIN out_files
            /\ ~LogHasOp("write", k)
            /\ \A m \in DOMAIN log : log[m].i <= k

\* C1 (step part): no step removes an output file or a created directory.
OutputsStay ==
    /\ \A p \in DOMAIN out_files : p \in DOMAIN out_files'
    /\ out_dirs \subseteq out_dirs'

\* C1: an authentication failure on the k-th file aborts the run with a
\* non-zero exit at k, with the outputs of the earlier exported files written
\* and left in place, no output for k and no later file attempted.
AuthFailureAborts == []AuthFailureState /\ [][OutputsStay]_vars

\* Three files, the first written, the second refused for its credentials.
AuthFailureWitness ==
    /\ Len(paper_files) = 3
    /\ Written(1)
    /\ LogHas("export", 2, "AuthError")
    /\ pc = "exit"

\* C2 (as claimed): a file whose path resolution fails or whose export the API rejects
\* gets a skip message and no output, the loop goes on with the next file,
\* and the run exits with code 0 when no file meets an authentication
\* failure.
SkipsAreAbsorbed ==
    /\ \A i \in 1..Len(paper_files) :
          (LogHas("resolve", i, "RuntimeError") \/ LogHas("export", i, "ApiError")) =>
              /\ LogHasOp("print_skip", i)
              /\ ~LogHasOp("write", i)
              /\ IF i < Len(paper_files) THEN idx > i ELSE Exited(0)
    /\ (/\ pc = "exit"
        /\ \E i \in 1..Len(paper_files) : LogHasOp("print_skip", i)
        /\ \A i \in 1..Len(paper_files) : ~LogHas("export", i, "AuthError"))
       => exit_code = 0

\* An exception that no handler of main catches was raised inside the loop:
\* the remote call failed with something other than ApiError or AuthError,
\* or creating the parent directory or writing the file failed.
UncaughtInLoop ==
    \E k \in DOMAIN log :
        \/ log[k].op = "export" /\ log[k].res = "OtherError"
        \/ log[k].op = "write" /\ log[k].res = "OSError"

AuthFailureInLoop == \E k \in DOMAIN log : log[k] = Event("export", log[k].i, "AuthError")

\* C2 (amended): a file whose path resolution fails or whose export the API
\* rejects gets a skip message and no output, the loop goes on with the next
\* file, and the run exits with code 0 when no file meets an authentication
\* failure or an exception that main does not catch.
SkipsAreAbsorbedUnlessFatal ==
    /\ \A i \in 1..Len(paper_files) :
          (LogHas("resolve", i, "RuntimeError") \/ LogHas("export", i, "ApiError")) =>
              /\ LogHasOp("print_skip", i)
              /\ ~LogHasOp("write", i)
              /\ IF i < Len(paper_files) THEN idx > i
                 ELSE pc = "exit" /\ (exit_code = 0 <=> status = "completed")
    /\ (/\ pc = "exit"
        /\ \E i \in 1..Len(paper_files) : LogHasOp("print_skip", i)
        /\ ~AuthFailureInLoop
        /\ ~UncaughtInLoop)
       => exit_code = 0

\* A path failure on the first file, an API rejection on the second, the
\* third written, exit code 0.
SkipsWitness ==
    /\ LogHas("resolve", 1, "RuntimeError")
    /\ LogHas("export", 2, "ApiError")
    /\ Written(3)
    /\ Exited(0)

\* C3: when the source directory is no directory or no token is given, the
\* run exits non-zero with the output directory not created, nothing
\* discovered, no remote call made and nothing written.
ConfigAbortBeforeWork ==
    status \in {"aborted_dir", "aborted_token"} =>
        /\ ExitedNonZero
        /\ ~out_dir_created
        /\ out_dirs = {}
        /\ tree = {}
        /\ paper_files = <<>>
        /\ log = <<>>
        /\ out_files = <<>>

\* The run stopped for the missing token.
ConfigAbortWitness ==
    /\ status = "aborted_token"
    /\ token = ""
    /\ pc = "exit"

\* C4 (as claimed): once the run is past its set-up it ends either completed with exit
\* code 0 or aborted on an authentication failure with a non-zero exit code,
\* whatever the remote call and the file write do.
TwoTerminalStates ==
    (pc = "exit" /\ Discovered) =>
        \/ status = "completed" /\ exit_code = 0
        \/ status = "aborted_auth" /\ exit_code # 0

\* C4 (amended): once the run is past its set-up it ends in one of three
\* states: completed with exit code 0, aborted on an authentication failure
\* with a non-zero exit code, or stopped with a non-zero exit code by an
\* exception that main does not catch.
ThreeTerminalStates ==
    (pc = "exit" /\ Discovered) =>
        \/ /\ status = "completed"
           /\ exit_code = 0
           /\ ~AuthFailureInLoop
           /\ ~UncaughtInLoop
        \/ /\ status = "aborted_auth"
           /\ exit_code # 0
           /\ log[Len(log)] = Event("export", idx, "AuthError")
        \/ /\ status = "uncaught"
           /\ exit_code # 0
           /\ log[Len(log)] \in {Event("export", idx, "OtherError"),
                                 Event("write", idx, "OSError")}

\* The first file written, the write of the second failing.
UncaughtWitness ==
    /\ pc = "exit"
    /\ status = "uncaught"
    /\ Written(1)
    /\ LogHas("write", 2, "OSError")

\* C5: the discovered files are the sorted list of the .paper paths under the
\* local root, and the steps run one file at a time in that order: each step
\* at most once per file, resolve before export before write, and every step
\* of a file before any step of the next.
SequentialInOrder ==
    /\ Discovered =>
          /\ \A i \in 1..(Len(paper_files) - 1) :
                PathLess(paper_files[i], paper_files[i + 1])
          /\ {paper_files[i] : i \in 1..Len(paper_files)} =
                {PaperDir \o e : e \in {f \in tree : f[Len(f)][Len(f[Len(f)])] = ".paper"}}
    /\ LET steps == SelectSeq(log, IsStep)
       IN \A k \in 1..Len(steps) :
             /\ steps[k].i \in 1..Len(paper_files)
             /\ k > 1 =>
                   \/ steps[k - 1].i < steps[k].i
                   \/ /\ steps[k - 1].i = steps[k].i
                      /\ StepRank(steps[k - 1].op) < StepRank(steps[k].op)
             /\ steps[k].op = "resolve" =>
                   (k > 1 => steps[k - 1].i < steps[k].i)
             /\ steps[k].op = "export" =>
                   (k > 1 /\ steps[k - 1] = Event("resolve", steps[k].i, "ok"))
             /\ steps[k].op = "write" =>
                   (k > 1 /\ steps[k - 1] = Event("export", steps[k].i, "ok"))

\* A completed run over three files, all of them written.
SequentialWitness ==
    /\ status = "completed"
    /\ Len(paper_files) = 3
    /\ Cardinality(tree) = 3
    /\ \A i \in 1..3 : Written(i)

\* C6: when no matching file is discovered the run prints the "no files
\* found" message, makes no remote call, writes nothing and exits with 0.
NoFilesCompletes ==
    (Discovered /\ paper_files = <<>>) =>
        /\ Exited(0)
        /\ status = "completed"
        /\ log = <<Event("print_no_files", 0, "")>>
        /\ out_files = <<>>

\* A tree that holds files, none of them a .paper file.
NoFilesWitness ==
    /\ Discovered
    /\ tree # {}
    /\ paper_files = <<>>
    /\ pc = "exit"

\* The mirrored path of a discovered file: its path relative to the local
\* root, under the output root, with ".paper" replaced by the extension of
\* the format.
MirrorPath(paper_path, format) ==
    LET rel  == SubSeq(paper_path, Len(PaperDir) + 1, Len(paper_path))
        name == rel[Len(rel)]
        ext  == IF format = "markdown" THEN ".md" ELSE ".html"
    IN OutputDir \o SubSeq(rel, 1, Len(rel) - 1) \o
       <<Append(SubSeq(name, 1, Len(name) - 1), ext)>>

\* C8: every file whose export succeeded is written to its mirrored path and
\* nowhere else, under directories that exist, and only exported files are
\* written.
OutputPathMirrorsInput ==
    /\ \A i \in 1..Len(paper_files) :
          Written(i) =>
              /\ LogHas("export", i, "ok")
              /\ MirrorPath(paper_files[i], args.format) \in DOMAIN out_files
              /\ Prefixes(MirrorPath(paper_files[i], args.format))
                    \ {MirrorPath(paper_files[i], args.format)} \subseteq out_dirs
    /\ DOMAIN out_files \subseteq
          {MirrorPath(paper_files[i], args.format) :
              i \in {j \in 1..Len(paper_files) : Written(j)}}

\* C10: distinct discovered files have distinct output paths, and a completed
\* run leaves as many output files as it exported documents.
OutputPathsInjective ==
    /\ \A i, j \in 1..Len(paper_files) :
          i # j => TargetPath(paper_files[i], args.format)
                      # TargetPath(paper_files[j], args.format)
    /\ status = "completed" => Cardinality(DOMAIN out_files) = NumWritten

\* Reading a POSIX string back as a relative path: split at the separators.
RECURSIVE SplitPosix(_)
SplitPosix(s) ==
    LET seps == {i \in 1..Len(s) : s[i] = "/"}
    IN IF seps = {} THEN <<s>>
       ELSE LET i == CHOOSE j \in seps : \A k \in seps : j <= k
            IN <<SubSeq(s, 1, i - 1)>> \o SplitPosix(SubSeq(s, i + 1, Len(s)))

\* The resolved file lies strictly under the resolved root.
StrictlyUnder(P, R) ==
    /\ Len(R) < Len(P)
    /\ \A i \in 1..Len(R) : P[i] = R[i]

\* The resolved file is neither the root nor under it.
Outside(P, R) ==
    \/ Len(R) > Len(P)
    \/ \E i \in 1..Len(R) : P[i] # R[i]

\* C7: compute_remote_path returns "/" followed by the file's path relative
\* to the root in forward-slash form when the file lies strictly under the
\* root, so that dropping the "/" and splitting at the separators gives the
\* relative path back; it fails and returns no identifier when the file lies
\* outside the root.
RemotePathContract ==
    pc = "returned_path" =>
        LET P   == Resolve(call.local_file)
            R   == Resolve(call.dropbox_root)
            rel == [i \in 1..(Len(P) - Len(R)) |-> P[Len(R) + i]]
        IN /\ StrictlyUnder(P, R) =>
                 /\ ret.ok
                 /\ Head(ret.value) = "/"
                 /\ SplitPosix(Tail(ret.value)) = rel
           /\ Outside(P, R) => (~ret.ok /\ ret.value = <<>>)

\* A file two levels below a root that is spelled with "..".
RemotePathWitness ==
    /\ pc = "returned_path"
    /\ call.dropbox_root = << <<"a">>, <<"a">>, <<"..">> >>
    /\ call.local_file = << <<"a">>, <<"a">>, <<"a", ".paper">> >>
    /\ ret.ok
    /\ ret.value = <<"/", "a", "/", "a", ".paper">>

\* C9: on a successful export, export_paper returns a heading line, a blank
\* line and then the exported text; the heading holds the reported title, or
\* the last segment of the remote path when no title is reported, and the
\* requested format.
ExportedContentLayout ==
    (pc = "returned_export" /\ call.result.kind = "ok") =>
        LET v       == ret.value
            breaks  == {i \in 1..Len(v) : v[i] = "\n"}
            first   == CHOOSE i \in breaks : \A k \in breaks : i <= k
            heading == SubSeq(v, 1, first - 1)
            body    == SubSeq(v, first + 2, Len(v))
            payload == call.result.payload
            segment == CHOOSE seg \in {SubSeq(call.path, n + 1, Len(call.path)) :
                                          n \in 1..Len(call.path)} :
                          /\ call.path[Len(call.path) - Len(seg)] = "/"
                          /\ \A i \in 1..Len(seg) : seg[i] # "/"
            title   == IF call.result.has_name THEN call.result.name
                       ELSE segment
        IN /\ ret.kind = "return"
           /\ breaks # {}
           /\ Len(v) >= first + 1
           /\ v[first + 1] = "\n"
           /\ heading # <<>>
           /\ heading[1] = "# "
           /\ SubSeq(heading, 2, 1 + Len(title)) = title
           /\ call.format # "" =>
                 \E i \in (2 + Len(title))..Len(heading) : heading[i] = call.format
           /\ Len(body) = Len(payload)
           /\ \A i \in 1..Len(payload) :
                 body[i] = IF payload[i] = 104 THEN "h"
                           ELSE IF payload[i] = 10 THEN "\n"
                           ELSE "U+FFFD"

\* A successful export of /d/a.paper whose metadata reports no title.
ExportedContentWitness ==
    /\ pc = "returned_export"
    /\ call.result.kind = "ok"
    /\ ~call.result.has_name
    /\ call.path = <<"/", "d", "/", "a", ".paper">>
    /\ call.format = "markdown"
    /\ call.result.payload = <<104, 255>>
    /\ ret.value = <<"# ", "a", ".paper", " (exported as ", "markdown", ")",
                     "\n", "\n", "h", "U+FFFD">>

====
